---- MODULE Spec2Model ----
(***************************************************************************)
(* Workforce monitoring backend (src/backend): the attendance / safety     *)
(* event store operations of MongoDBManager, the face matcher and the      *)
(* safety classifier of app_simple.py, the /api/attendance/mark handler,   *)
(* the camera monitoring loop with start_camera, stop_camera and           *)
(* cleanup_camera, the face gallery (register_employee,                    *)
(* load_employees_from_db) with the employee registration and deletion     *)
(* handlers, MongoDBManager.register_employee, check_attendance_today and  *)
(* analyze_safety_frame.                                                   *)
(*                                                                         *)
(* Scales.  Times are clock ticks, a calendar day is DayLen ticks.         *)
(* Confidences, distances and safety scores are in tenths (1.0 = 10).      *)
(* A face encoding is a point on a line; face_distance is the Euclidean    *)
(* distance, here the absolute difference.                                 *)
(***************************************************************************)
EXTENDS Integers, Sequences, FiniteSets, TLC

\* ------------------------------------------------------------------ bounds
MaxTime == 2
DayLen == 2
MaxCalls == 3
MaxFrames == 2
MaxLoads == 2

\* ------------------------------------------------------- program constants
None == -1
Tolerance == 6
DefaultConfidence == 10

\* app_simple.py never binds the module globals np and cv2: numpy and OpenCV
\* are only imported inside import_numpy() / import_cv2() (lines 19-27) and
\* bound to locals of the functions that call them.  recognize_faces calls
\* import_cv2() but not import_numpy(), so its np.argmin (line 227) raises
\* NameError, which its own except clause (line 254) turns into [].
NpBound == FALSE

ReqThreads == {"req1", "req2"}
LoopThread == "loop"
Threads == ReqThreads \cup {LoopThread}

Max(a, b) == IF a >= b THEN a ELSE b
Abs(a) == IF a >= 0 THEN a ELSE 0 - a
SetMin(S) == CHOOSE x \in S : \A y \in S : x <= y
Times == 0..MaxTime

\* --------------------------------------------------------- employee store
EmptyStore == <<>>
SeededStore ==
    << [employee_id |-> "E1", name |-> "Ann", face_encoding |-> 0, status |-> "active"],
       [employee_id |-> "E2", name |-> "Bob", face_encoding |-> 2, status |-> "active"],
       [employee_id |-> "E3", name |-> "Cy", face_encoding |-> None, status |-> "active"] >>

get_employee_by_id(store, id) == \E i \in 1..Len(store) : store[i].employee_id = id

get_all_employees_with_encodings(store) ==
    SelectSeq(store, LAMBDA emp : emp.face_encoding # None)

RECURSIVE LoadIds(_)
LoadIds(emps) ==
    IF emps = <<>> THEN <<>>
    ELSE (IF Head(emps).employee_id # "" /\ Head(emps).face_encoding # None
          THEN <<Head(emps).employee_id>> ELSE <<>>) \o LoadIds(Tail(emps))
RECURSIVE LoadNames(_)
LoadNames(emps) ==
    IF emps = <<>> THEN <<>>
    ELSE (IF Head(emps).employee_id # "" /\ Head(emps).face_encoding # None
          THEN <<Head(emps).name>> ELSE <<>>) \o LoadNames(Tail(emps))
RECURSIVE LoadEncodings(_)
LoadEncodings(emps) ==
    IF emps = <<>> THEN <<>>
    ELSE (IF Head(emps).employee_id # "" /\ Head(emps).face_encoding # None
          THEN <<Head(emps).face_encoding>> ELSE <<>>) \o LoadEncodings(Tail(emps))

\* ------------------------------------------------------- attendance store
Day(t) == t \div DayLen
today_start(ct) == Day(ct) * DayLen
today_end(ct) == today_start(ct) + DayLen - 1

\* the filter {'employee_id': e, 'timestamp': {'$gte': today_start, '$lte': today_end}}
TodayFilter(doc, e, ct) ==
    /\ doc.employee_id = e
    /\ doc.timestamp >= today_start(ct)
    /\ doc.timestamp <= today_end(ct)

\* index of the first document the filter selects, 0 when there is none
FirstMatch(att, e, ct) ==
    LET hits == {i \in 1..Len(att) : TodayFilter(att[i], e, ct)}
    IN  IF hits = {} THEN 0 ELSE SetMin(hits)

\* find_one: <<>> for None, <<doc>> for the document found
find_one(att, e, ct) ==
    IF FirstMatch(att, e, ct) = 0 THEN <<>> ELSE <<att[FirstMatch(att, e, ct)]>>

\* the '$set' of the update branch, applied to the stored document
KeepNewest(old, new) == new
KeepHighest(old, new) == Max(old, new)
UpdatedDoc(doc, existing, ct, confidence) ==
    [doc EXCEPT !.check_out_time = ct,
                !.confidence = KeepHighest(existing.confidence, confidence),
                !.updated_at = ct]

\* the document of the insert branch
attendance_doc(e, ct, confidence) ==
    [employee_id |-> e, check_in_time |-> ct, check_out_time |-> None,
     confidence |-> confidence, timestamp |-> ct, updated_at |-> ct]

\* check_attendance_today, lines 719-725: find_one on employee_id and a 'date'
\* field equal to the target date
DateFilter(doc, e, target_date) ==
    /\ doc.employee_id = e
    /\ "date" \in DOMAIN doc
    /\ doc.date = target_date
check_attendance_today(att, e, target_date) ==
    \E i \in 1..Len(att) : DateFilter(att[i], e, target_date)

\* ---------------------------------------------------------- face matcher
\* frames: the faces in view (their encodings), the number of bodies the
\* cascade detector finds, the number of person-like contours of the fallback,
\* and whether a qualifying helmet / vest contour lies in the region examined
FaceLists == {<<>>, <<0>>, <<1>>, <<9>>, <<6, 0>>}
Frames == [faces : FaceLists, cascade : {0, 1}, contours : {0, 1},
           helmet : BOOLEAN, vest : BOOLEAN]
\* frames with one face in view that the body cascade does not fire on
ImageFrames == {fr \in Frames : fr.faces = <<0>> /\ fr.cascade = 0 /\ fr.helmet = fr.vest}

UnknownResult(j) ==
    [employee_id |-> "UNKNOWN", name |-> "Unknown Person", confidence |-> 0, bbox |-> j]

\* face_recognition.face_distance and compare_faces (distance <= tolerance)
face_distance(encs, probe) == [k \in 1..Len(encs) |-> Abs(encs[k] - probe)]
compare_faces(encs, probe, tolerance) ==
    [k \in 1..Len(encs) |-> face_distance(encs, probe)[k] <= tolerance]
\* np.argmin: the first index of the minimum
argmin(d) == SetMin({k \in 1..Len(d) : \A m \in 1..Len(d) : d[k] <= d[m]})

\* the body of the loop over faces, lines 221-251
MatchFace(ids, names, encs, probe, j) ==
    IF Len(encs) > 0
    THEN LET matches == compare_faces(encs, probe, Tolerance)
             face_distances == face_distance(encs, probe)
             best_match_index == argmin(face_distances)
         IN  IF matches[best_match_index]
             THEN [employee_id |-> ids[best_match_index],
                   name |-> names[best_match_index],
                   confidence |-> 10 - face_distances[best_match_index],
                   bbox |-> j]
             ELSE UnknownResult(j)
    ELSE UnknownResult(j)

\* np.argmin is evaluated for the first face when the gallery is not empty
RecognizeRaises(f, encs) == Len(f.faces) > 0 /\ Len(encs) > 0 /\ ~NpBound

\* detect_faces: the regions the Haar cascade finds, one per face in view
detect_faces(f) == [j \in 1..Len(f.faces) |-> j]

recognize_faces_no_fallback(f, ids, names, encs, available) ==
    IF ~available \/ RecognizeRaises(f, encs)
    THEN <<>>
    ELSE [j \in 1..Len(f.faces) |-> MatchFace(ids, names, encs, f.faces[j], j)]
recognize_faces(f, ids, names, encs, available) ==
    IF ~available
    THEN [j \in 1..Len(detect_faces(f)) |-> UnknownResult(detect_faces(f)[j])]
    ELSE IF RecognizeRaises(f, encs)
    THEN <<>>
    ELSE [j \in 1..Len(f.faces) |-> MatchFace(ids, names, encs, f.faces[j], j)]

\* -------------------------------------------------------- safety monitor
\* detect_person: the cascade's detections are a numpy array, the fallback's
\* a Python list
detect_person(f) ==
    IF f.cascade > 0
    THEN [ndarray |-> TRUE,
          boxes |-> [i \in 1..f.cascade |-> [src |-> "primary", of |-> i, ndarray |-> TRUE]]]
    ELSE [ndarray |-> FALSE,
          boxes |-> [i \in 1..f.contours |-> [src |-> "fallback", of |-> i, ndarray |-> FALSE]]]

FaceDerived(face_results) ==
    [j \in 1..Len(face_results) |->
        [src |-> "face-derived", of |-> face_results[j].bbox, ndarray |-> FALSE]]

\* 'if person_bbox:' on a row of a numpy array raises ValueError (ambiguous
\* truth value), which the except clause answers with False
detect_helmet_fail_open(f, person_bbox) == IF person_bbox.ndarray THEN TRUE ELSE f.helmet
detect_helmet(f, person_bbox) == IF person_bbox.ndarray THEN FALSE ELSE f.helmet
detect_safety_vest(f, person_bbox) == IF person_bbox.ndarray THEN FALSE ELSE f.vest

classify_by_count(n_persons, violations) ==
    IF Len(violations) = 0 THEN [safety_score |-> 10, safety_status |-> "compliant"]
    ELSE IF Len(violations) = 1 THEN [safety_score |-> 7, safety_status |-> "minor_violation"]
    ELSE IF Len(violations) = 2 THEN [safety_score |-> 4, safety_status |-> "major_violation"]
    ELSE [safety_score |-> 1, safety_status |-> "critical"]
\* lines 477-493
classify(n_persons, violations) ==
    IF n_persons = 0 THEN [safety_score |-> 5, safety_status |-> "no_person_detected"]
    ELSE IF Len(violations) = 0 THEN [safety_score |-> 10, safety_status |-> "compliant"]
    ELSE IF Len(violations) = 1 THEN [safety_score |-> 7, safety_status |-> "minor_violation"]
    ELSE IF Len(violations) = 2 THEN [safety_score |-> 4, safety_status |-> "major_violation"]
    ELSE [safety_score |-> 1, safety_status |-> "critical"]

ppe_violations_helmet_only(n_persons, has_helmet, has_vest) ==
    IF n_persons > 0
    THEN (IF has_helmet THEN <<>> ELSE <<"Hard hat required">>)
    ELSE <<"No person detected for safety assessment">>
\* lines 458-475
ppe_violations(n_persons, has_helmet, has_vest) ==
    IF n_persons > 0
    THEN (IF has_helmet THEN <<>> ELSE <<"Hard hat required">>)
         \o (IF has_vest THEN <<>> ELSE <<"Safety vest required">>)
    ELSE <<"No person detected for safety assessment">>

default_assessment ==
    [violations |-> <<>>, safety_score |-> 10, safety_status |-> "compliant",
     hasHelmet |-> TRUE, hasVest |-> TRUE, persons_detected |-> 0]
\* lines 508-520
error_assessment ==
    [violations |-> <<"Safety system error">>, safety_score |-> 0,
     safety_status |-> "system_error", hasHelmet |-> FALSE, hasVest |-> FALSE,
     persons_detected |-> 0]

\* persons.append on the cascade's numpy array raises AttributeError
ProcessFrameRaises(f, face_results) ==
    Len(face_results) > 0 /\ detect_person(f).ndarray

process_frame(f, face_results) ==
    IF ProcessFrameRaises(f, face_results) THEN error_assessment
    ELSE LET persons == detect_person(f).boxes \o FaceDerived(face_results)
             has_helmet == IF Len(persons) > 0 THEN detect_helmet(f, persons[1]) ELSE FALSE
             has_vest == IF Len(persons) > 0 THEN detect_safety_vest(f, persons[1]) ELSE FALSE
             violations == ppe_violations(Len(persons), has_helmet, has_vest)
             c == classify(Len(persons), violations)
         IN  [violations |-> violations, safety_score |-> c.safety_score,
              safety_status |-> c.safety_status, hasHelmet |-> has_helmet,
              hasVest |-> has_vest, persons_detected |-> Len(persons)]

\* process_frame_for_monitoring answers None ([faces |-> <<>>, safety |-> <<>>]
\* here) only when an exception reaches its own except clause; recognize_faces
\* and process_frame catch theirs, so none does
process_frame_for_monitoring_unguarded(f, ids, names, encs, available) ==
    LET faces == recognize_faces(f, ids, names, encs, available)
    IN  IF (available /\ RecognizeRaises(f, encs)) \/ ProcessFrameRaises(f, faces)
        THEN [faces |-> <<>>, safety |-> <<>>]
        ELSE [faces |-> faces, safety |-> <<process_frame(f, faces)>>]
process_frame_for_monitoring(f, ids, names, encs, available) ==
    LET faces == recognize_faces(f, ids, names, encs, available)
    IN  [faces |-> faces, safety |-> <<process_frame(f, faces)>>]

\* ------------------------------------------------- safety events, alerts
event_doc(employee_id, safety_status, violations) ==
    [employee_id |-> employee_id, safety_status |-> safety_status,
     violations |-> violations, violation_count |-> Len(violations),
     event_type |-> "safety_monitoring"]

\* ', '.join(violations)
RECURSIVE Join(_)
Join(items) ==
    IF Len(items) = 0 THEN <<>>
    ELSE IF Len(items) = 1 THEN items
    ELSE <<Head(items), ", ">> \o Join(Tail(items))

alert_doc(employee_id, alert_type, message, priority) ==
    [employee_id |-> employee_id, type |-> alert_type, message |-> message,
     priority |-> priority, status |-> "active", acknowledged |-> FALSE]

\* create_alert: a failing insert is logged and answered with False
create_alert(als, employee_id, alert_type, message, priority, insert_raises) ==
    IF insert_raises THEN als
    ELSE Append(als, alert_doc(employee_id, alert_type, message, priority))

AlwaysAlert(violations) == TRUE
ViolationAlert(violations) == violations # <<>>

\* the alerts collection after save_safety_event's 'if violations:' block
alerts_after_event(als, employee_id, violations, insert_raises) ==
    IF ViolationAlert(violations)
    THEN create_alert(als, employee_id, "safety_violation",
                      <<"Safety violations detected: ">> \o Join(violations),
                      "high", insert_raises)
    ELSE als

\* get_safety_stats: the events counted as violations
violations_today(events) ==
    Cardinality({i \in 1..Len(events) : events[i].violation_count > 0})

VARIABLES
    now,                    \* datetime.now()
    employees,              \* the employees collection
    known_employee_ids,     \* face_system's gallery: three parallel lists
    known_face_names,
    known_face_encodings,
    attendance,             \* the attendance collection, in insertion order
    safety_events,          \* the safety_events collection
    alerts,                 \* the alerts collection
    pc,                     \* per thread: where it is
    req,                    \* per request thread: mark_attendance's locals
    sa,                     \* per thread: save_attendance's arguments and locals
    response,               \* the last response a request thread sent
    frame,                  \* the loop's current frame
    face_recognition,       \* recognize_faces' local: import_face_recognition() gave the library
    results,                \* the loop's results for that frame
    todo,                   \* faces of results save_monitoring_results has not saved yet
    calls,                  \* history: per employee and day, the save_attendance calls that wrote
    okEvents,               \* history: number of save_safety_event calls that returned True
    alertErrors,            \* history: number of create_alert calls whose insert raised
    nRequests,              \* history: number of requests that reached save_attendance
    nFrames,                \* history: number of frames read by the loop
    camera_state,           \* the global camera_state dictionary
    capture_open,           \* the capture resource: opened and not yet released
    loop_camera,            \* camera_monitoring_loop's local 'camera'
    ld,                     \* per request thread: load_employees_from_db's locals
    gallery_old,            \* history: the gallery when the last load began
    reg_result,             \* the last return of face_system.register_employee
    nLoads,                 \* history: number of load_employees_from_db calls
    analysis,               \* the last response of analyze_safety_frame
    payload,                \* the request body of that analyze_safety_frame call
    save_log,               \* the last line save_monitoring_results wrote to the log
    loop_threads,           \* number of camera_monitoring_loop threads started and not ended
    start_result,           \* the last outcome of start_camera
    db_result               \* the last return of MongoDBManager.register_employee

storeVars == <<employees, attendance, safety_events, alerts>>
galleryVars == <<known_employee_ids, known_face_names, known_face_encodings>>
loopVars == <<frame, face_recognition, results, todo, nFrames>>
cameraVars == <<camera_state, capture_open, loop_camera>>
adminVars == <<ld, gallery_old, reg_result, nLoads>>
analyzeVars == <<analysis, payload>>
reportVars == <<save_log, loop_threads, start_result, db_result>>
otherVars == <<cameraVars, adminVars, analyzeVars, reportVars>>
vars == <<now, storeVars, galleryVars, pc, req, sa, response, loopVars, calls, okEvents,
          alertErrors, nRequests, otherVars>>

EmployeeIds == {"E1", "E2"}
Days == {Day(t) : t \in Times}
\* the history of the calls for one employee and day: how many wrote, the time
\* of the first and of the last, the highest confidence passed and the last one
NoCalls == [n |-> 0, first |-> None, last |-> None, highest |-> 0, last_confidence |-> 0]
Recorded(h, ct, confidence) ==
    [n |-> h.n + 1, first |-> IF h.n = 0 THEN ct ELSE h.first, last |-> ct,
     highest |-> Max(h.highest, confidence), last_confidence |-> confidence]
NoFrame == [faces |-> <<>>, cascade |-> 0, contours |-> 0, helmet |-> FALSE, vest |-> FALSE]
NoResults == [faces |-> <<>>, safety |-> <<>>]
NoSa == [employee_id |-> "", confidence |-> 0, current_time |-> 0, existing |-> <<>>]
NoReq == [employee_id |-> "", confidence |-> 0, timestamp |-> 0]
NoResponse == [status |-> 0]
\* camera_state as the module creates it (lines 98-102) and as cleanup_camera
\* leaves it, and as start_camera's update (lines 1232-1236) sets it
StoppedCamera == [camera |-> "None", thread |-> "None", is_running |-> FALSE]
RunningCamera == [camera |-> "VideoCapture", thread |-> "Thread", is_running |-> TRUE]
NoLd == [emps |-> <<>>, all |-> <<>>, ok |-> TRUE, route |-> FALSE]
NoRegResult == [employee_id |-> "", returned |-> "none"]
NoPayload == [kind |-> "none", frame |-> NoFrame]
NoAnalysis == [status |-> 0, safety |-> <<>>]
NoDbResult == [employee_id |-> "", returned |-> "none"]

\* ------------------------------------------------------------- requests
\* the 'timestamp' field of the request body: absent, a string that
\* datetime.fromisoformat rejects, or the ISO text of a time
TimestampInputs ==
    {[kind |-> "absent", at |-> 0], [kind |-> "invalid", at |-> 0]}
        \cup [kind : {"iso"}, at : {0}]
\* the 'confidence' field: absent (None) or a number
ConfidenceInputs == {None, 5}
RequestIds == {"E1", "E2", "E9"}

\* lines 1081 and 1088-1093
parse_timestamp(ts, clock) == IF ts.kind = "iso" THEN ts.at ELSE clock

SaArgs(face) ==
    [employee_id |-> face.employee_id, confidence |-> face.confidence,
     current_time |-> 0, existing |-> <<>>]

\* save_monitoring_results skips the faces that are UNKNOWN
Recognized(faces) == SelectSeq(faces, LAMBDA face : face.employee_id # "UNKNOWN")

\* The state once the module is loaded (face_system built, its gallery loaded
\* from the store) and the monitoring thread has been started on an opened
\* capture, as start_camera's lines 1232-1237 leave camera_state.
Init ==
    /\ now = 0
    /\ employees \in {EmptyStore, SeededStore}
    /\ known_employee_ids = LoadIds(get_all_employees_with_encodings(employees))
    /\ known_face_names = LoadNames(get_all_employees_with_encodings(employees))
    /\ known_face_encodings = LoadEncodings(get_all_employees_with_encodings(employees))
    /\ attendance = <<>>
    /\ safety_events = <<>>
    /\ alerts = <<>>
    /\ pc = [t \in Threads |-> "idle"]
    /\ req = [t \in ReqThreads |-> NoReq]
    /\ sa = [t \in Threads |-> NoSa]
    /\ response = NoResponse
    /\ frame = NoFrame
    /\ face_recognition = FALSE
    /\ results = NoResults
    /\ todo = <<>>
    /\ calls = [e \in EmployeeIds |-> [d \in Days |-> NoCalls]]
    /\ okEvents = 0
    /\ alertErrors = 0
    /\ nRequests = 0
    /\ nFrames = 0
    /\ camera_state = RunningCamera
    /\ capture_open = TRUE
    /\ loop_camera = "None"
    /\ ld = [t \in ReqThreads |-> NoLd]
    /\ gallery_old = <<known_employee_ids, known_face_names, known_face_encodings>>
    /\ reg_result = NoRegResult
    /\ nLoads = 0
    /\ analysis = NoAnalysis
    /\ payload = NoPayload
    /\ save_log = ""
    /\ loop_threads = 1
    /\ start_result = "none"
    /\ db_result = NoDbResult

\* the clock advances
Tick ==
    /\ now < MaxTime
    /\ now' = now + 1
    /\ UNCHANGED <<storeVars, galleryVars, pc, req, sa, response, loopVars, calls, okEvents,
                   alertErrors, nRequests, otherVars>>

\* POST /api/attendance/mark up to the call of save_attendance (lines 1074-1098)
mark_attendance(t, has_id, e, c, ts) ==
    /\ pc[t] = "idle"
    /\ nRequests < MaxCalls
    /\ IF ~has_id
       THEN /\ response' = [status |-> 400]
            /\ UNCHANGED <<pc, req, sa, nRequests>>
       ELSE IF ~get_employee_by_id(employees, e)
       THEN /\ response' = [status |-> 404]
            /\ UNCHANGED <<pc, req, sa, nRequests>>
       ELSE LET confidence == IF c = None THEN DefaultConfidence ELSE c
            IN  /\ nRequests' = nRequests + 1
                /\ req' = [req EXCEPT ![t] = [employee_id |-> e, confidence |-> confidence,
                                              timestamp |-> parse_timestamp(ts, now)]]
                /\ sa' = [sa EXCEPT ![t] = [employee_id |-> e, confidence |-> confidence,
                                            current_time |-> 0, existing |-> <<>>]]
                /\ pc' = [pc EXCEPT ![t] = "sa_find"]
                /\ UNCHANGED response
    /\ UNCHANGED <<now, storeVars, galleryVars, loopVars, calls, okEvents, alertErrors,
                   otherVars>>

\* save_attendance returns `success` to its caller: mark_attendance answers
\* (lines 1100-1110), save_monitoring_results goes on to the next face
\* (lines 1451-1457) and then to the safety event
Return(t, success) ==
    IF t \in ReqThreads
    THEN /\ response' = IF success
                        THEN [status |-> 200] ELSE [status |-> 500]
         /\ req' = [req EXCEPT ![t] = NoReq]
         /\ pc' = [pc EXCEPT ![t] = "idle"]
         /\ sa' = [sa EXCEPT ![t] = NoSa]
         /\ UNCHANGED todo
    ELSE /\ todo' = Tail(todo)
         /\ pc' = [pc EXCEPT ![t] = IF Len(todo) > 1 THEN "sa_find" ELSE "save_safety"]
         /\ sa' = [sa EXCEPT ![t] = IF Len(todo) > 1 THEN SaArgs(todo[2]) ELSE NoSa]
         /\ UNCHANGED <<req, response>>

\* save_attendance, lines 565-573: read the clock, look for today's record
SaveAttendanceFind(t) ==
    /\ pc[t] = "sa_find"
    /\ \E raises \in BOOLEAN :
        IF raises
        THEN Return(t, FALSE)
        ELSE /\ sa' = [sa EXCEPT ![t].current_time = now,
                                 ![t].existing = find_one(attendance, sa[t].employee_id, now)]
             /\ pc' = [pc EXCEPT ![t] = "sa_write"]
             /\ UNCHANGED <<req, response, todo>>
    /\ UNCHANGED <<now, storeVars, galleryVars, frame, face_recognition, results, nFrames, calls, okEvents,
                   alertErrors, nRequests, otherVars>>

\* the attendance collection after the write of lines 575-605
AttendanceAfterWrite(att, s) ==
    IF s.existing # <<>>
    THEN LET i == FirstMatch(att, s.employee_id, s.current_time)
         IN  IF i = 0 THEN att
             ELSE [att EXCEPT ![i] = UpdatedDoc(att[i], s.existing[1], s.current_time,
                                                s.confidence)]
    ELSE Append(att, attendance_doc(s.employee_id, s.current_time, s.confidence))

\* save_attendance, lines 575-616: update_one or insert_one, then the result
SaveAttendanceWrite(t) ==
    /\ pc[t] = "sa_write"
    /\ \E raises \in BOOLEAN :
        IF raises
        THEN /\ Return(t, FALSE)
             /\ UNCHANGED <<attendance, calls>>
        ELSE /\ attendance' = AttendanceAfterWrite(attendance, sa[t])
             /\ calls' = [calls EXCEPT ![sa[t].employee_id][Day(sa[t].current_time)] =
                            Recorded(@, sa[t].current_time, sa[t].confidence)]
             /\ Return(t, attendance' # attendance)
    /\ UNCHANGED <<now, employees, safety_events, alerts, galleryVars, frame, face_recognition, results,
                   nFrames, okEvents, alertErrors,
                   nRequests, otherVars>>

\* camera_monitoring_loop, line 1396: the loop thread is "idle" at its while test
LoopWhile ==
    /\ pc[LoopThread] = "idle"
    /\ pc' = [pc EXCEPT ![LoopThread] =
                IF camera_state.is_running THEN "get_camera" ELSE "cleanup"]
    /\ UNCHANGED <<now, storeVars, galleryVars, req, sa, response, loopVars, calls, okEvents,
                   alertErrors, nRequests, otherVars>>

\* lines 1398-1400
LoopGetCamera ==
    /\ pc[LoopThread] = "get_camera"
    /\ loop_camera' = camera_state.camera
    /\ pc' = [pc EXCEPT ![LoopThread] =
                IF camera_state.camera = "None" THEN "cleanup" ELSE "read"]
    /\ UNCHANGED <<now, storeVars, galleryVars, req, sa, response, loopVars, calls, okEvents,
                   alertErrors, nRequests, camera_state, capture_open, adminVars,
                   analyzeVars, reportVars>>

\* lines 1402-1413: camera.read() (ret: the device delivers; a released capture
\* delivers nothing), process_frame_for_monitoring, 'if results:', and the
\* start of save_monitoring_results, lines 1450-1452
LoopProcessFrame(f, available, ret) ==
    /\ pc[LoopThread] = "read"
    /\ IF ret /\ capture_open
       THEN /\ nFrames < MaxFrames
            /\ nFrames' = nFrames + 1
            /\ LET r == process_frame_for_monitoring(f, known_employee_ids,
                                                     known_face_names,
                                                     known_face_encodings, available)
               IN  IF r.safety = <<>>
                   THEN /\ pc' = [pc EXCEPT ![LoopThread] = "idle"]
                        /\ UNCHANGED <<frame, face_recognition, results, todo, sa>>
                   ELSE /\ frame' = f
                        /\ face_recognition' = available
                        /\ results' = r
                        /\ todo' = Recognized(r.faces)
                        /\ pc' = [pc EXCEPT ![LoopThread] =
                                    IF todo' # <<>> THEN "sa_find" ELSE "save_safety"]
                        /\ sa' = [sa EXCEPT ![LoopThread] =
                                    IF todo' # <<>> THEN SaArgs(todo'[1]) ELSE NoSa]
       ELSE /\ pc' = [pc EXCEPT ![LoopThread] = "cleanup"]
            /\ UNCHANGED <<frame, face_recognition, results, todo, sa, nFrames>>
    /\ UNCHANGED <<now, storeVars, galleryVars, req, response, calls, okEvents,
                   alertErrors, nRequests, otherVars>>

\* the employee the loop's safety event is filed under, lines 1462-1468
event_employee(faces) ==
    IF Recognized(faces) # <<>> THEN Recognized(faces)[1].employee_id ELSE "SYSTEM"

save_safety_event_once(employee_id, safety_status, violations, insert_raises, alert_raises) ==
    IF insert_raises
    THEN UNCHANGED <<safety_events, alerts, okEvents, alertErrors>>
    ELSE /\ safety_events' =
                IF \E i \in 1..Len(safety_events) :
                        safety_events[i] = event_doc(employee_id, safety_status, violations)
                THEN safety_events
                ELSE Append(safety_events, event_doc(employee_id, safety_status, violations))
         /\ alerts' = alerts_after_event(alerts, employee_id, violations, alert_raises)
         /\ okEvents' = okEvents + 1
         /\ alertErrors' = IF ViolationAlert(violations) /\ alert_raises
                           THEN alertErrors + 1 ELSE alertErrors
\* save_safety_event, lines 742-768
save_safety_event(employee_id, safety_status, violations, insert_raises, alert_raises) ==
    IF insert_raises
    THEN UNCHANGED <<safety_events, alerts, okEvents, alertErrors>>
    ELSE /\ safety_events' = Append(safety_events,
                                    event_doc(employee_id, safety_status, violations))
         /\ alerts' = alerts_after_event(alerts, employee_id, violations, alert_raises)
         /\ okEvents' = okEvents + 1
         /\ alertErrors' = IF ViolationAlert(violations) /\ alert_raises
                           THEN alertErrors + 1 ELSE alertErrors

\* what save_monitoring_results writes to the log after the safety event:
\* line 1476 when db_manager.save_safety_event returned, whatever it returned,
\* and line 1480 when an exception reached save_monitoring_results' own
\* except clause
save_monitoring_results_log(returned, raised) ==
    IF raised THEN "Database save error" ELSE "Saved safety event"

\* save_monitoring_results from the safety event on (lines 1459-1480), and the
\* loop's return to its while test; save_safety_event catches what its insert
\* raises and answers False, so nothing is raised into save_monitoring_results
LoopSaveSafetyEvent ==
    /\ pc[LoopThread] = "save_safety"
    /\ \E insert_raises \in BOOLEAN, alert_raises \in BOOLEAN :
        /\ save_safety_event(event_employee(results.faces), results.safety[1].safety_status,
                             results.safety[1].violations, insert_raises, alert_raises)
        /\ save_log' = save_monitoring_results_log(~insert_raises, FALSE)
    /\ pc' = [pc EXCEPT ![LoopThread] = "idle"]
    /\ frame' = NoFrame
    /\ face_recognition' = FALSE
    /\ results' = NoResults
    /\ UNCHANGED <<now, employees, attendance, galleryVars, req, sa, response, todo, nFrames,
                   calls, nRequests, cameraVars, adminVars, analyzeVars, loop_threads,
                   start_result, db_result>>

\* cleanup_camera, lines 1484-1485
cleanup_camera_release ==
    /\ pc[LoopThread] = "cleanup"
    /\ capture_open' = IF camera_state.camera # "None" THEN FALSE ELSE capture_open
    /\ pc' = [pc EXCEPT ![LoopThread] = "cleanup_update"]
    /\ UNCHANGED <<now, storeVars, galleryVars, req, sa, response, loopVars, calls, okEvents,
                   alertErrors, nRequests, camera_state, loop_camera, adminVars,
                   analyzeVars, reportVars>>

\* cleanup_camera, line 1486, and the end of the thread
cleanup_camera_update ==
    /\ pc[LoopThread] = "cleanup_update"
    /\ camera_state' = StoppedCamera
    /\ loop_camera' = "None"
    /\ pc' = [pc EXCEPT ![LoopThread] = "exited"]
    /\ loop_threads' = loop_threads - 1
    /\ UNCHANGED <<now, storeVars, galleryVars, req, sa, response, loopVars, calls, okEvents,
                   alertErrors, nRequests, capture_open, adminVars, analyzeVars, save_log,
                   start_result, db_result>>

\* the attendance path: the clock, the requests and save_attendance
NextAttendance ==
    \/ Tick
    \/ \E t \in ReqThreads, has_id \in BOOLEAN, e \in RequestIds, c \in ConfidenceInputs,
          ts \in TimestampInputs : mark_attendance(t, has_id, e, c, ts)
    \/ \E t \in Threads : SaveAttendanceFind(t)
    \/ \E t \in Threads : SaveAttendanceWrite(t)

\* the monitoring loop's own steps
NextMonitorOn(frames) ==
    \/ LoopWhile
    \/ LoopGetCamera
    \/ \E f \in frames, available \in BOOLEAN, ret \in BOOLEAN :
            LoopProcessFrame(f, available, ret)
    \/ LoopSaveSafetyEvent
    \/ cleanup_camera_release
    \/ cleanup_camera_update

NextMonitor == NextMonitorOn(Frames)


\* the request threads and save_attendance alone
SpecAttendance == Init /\ [][NextAttendance]_vars

\* the monitoring loop alone, until a read fails; no frame yields a recognized
\* face (RecognizeRaises), so the loop never enters save_attendance
SpecMonitor == Init /\ [][NextMonitor]_vars

\* save_attendance calls one after the other: a call starts only when no other
\* call is between its find and its write
SaveAttendanceFindSeq(t) ==
    /\ \A u \in Threads : pc[u] # "sa_write"
    /\ SaveAttendanceFind(t)

NextSeq ==
    \/ Tick
    \/ \E t \in ReqThreads, has_id \in BOOLEAN, e \in RequestIds, c \in ConfidenceInputs,
          ts \in TimestampInputs : mark_attendance(t, has_id, e, c, ts)
    \/ \E t \in Threads : SaveAttendanceFindSeq(t)
    \/ \E t \in Threads : SaveAttendanceWrite(t)

SpecSeq == Init /\ [][NextSeq]_vars

\* ------------------------------------------------------- camera control
\* POST /api/camera/stop, line 1245
stop_camera(t) ==
    /\ pc[t] = "idle"
    /\ IF ~camera_state.is_running
       THEN /\ response' = [status |-> 200]
            /\ UNCHANGED pc
       ELSE /\ pc' = [pc EXCEPT ![t] = "stop_set"]
            /\ UNCHANGED response
    /\ UNCHANGED <<now, storeVars, galleryVars, req, sa, loopVars, calls, okEvents,
                   alertErrors, nRequests, otherVars>>

\* line 1248
StopCameraSet(t) ==
    /\ pc[t] = "stop_set"
    /\ camera_state' = [camera_state EXCEPT !.is_running = FALSE]
    /\ pc' = [pc EXCEPT ![t] = "stop_check"]
    /\ UNCHANGED <<now, storeVars, galleryVars, req, sa, response, loopVars, calls, okEvents,
                   alertErrors, nRequests, capture_open, loop_camera, adminVars,
                   analyzeVars, reportVars>>

\* line 1249: 'if camera_state['camera']:'
StopCameraCheck(t) ==
    /\ pc[t] = "stop_check"
    /\ IF camera_state.camera # "None"
       THEN /\ pc' = [pc EXCEPT ![t] = "stop_release"]
            /\ UNCHANGED response
       ELSE /\ pc' = [pc EXCEPT ![t] = "idle"]
            /\ response' = [status |-> 200]
    /\ UNCHANGED <<now, storeVars, galleryVars, req, sa, loopVars, calls, okEvents,
                   alertErrors, nRequests, otherVars>>

\* line 1250: camera_state['camera'] is looked up again; on None the call of
\* .release() raises AttributeError, which handle_exceptions answers with 500
StopCameraRelease(t) ==
    /\ pc[t] = "stop_release"
    /\ IF camera_state.camera # "None"
       THEN /\ capture_open' = FALSE
            /\ response' = [status |-> 200]
       ELSE /\ response' = [status |-> 500]
            /\ UNCHANGED capture_open
    /\ pc' = [pc EXCEPT ![t] = "idle"]
    /\ UNCHANGED <<now, storeVars, galleryVars, req, sa, loopVars, calls, okEvents,
                   alertErrors, nRequests, camera_state, loop_camera, adminVars,
                   analyzeVars, reportVars>>

\* the monitoring loop and requests to stop it
NextCamera ==
    \/ NextMonitorOn(ImageFrames)
    \/ \E t \in ReqThreads : stop_camera(t)
    \/ \E t \in ReqThreads : StopCameraSet(t)
    \/ \E t \in ReqThreads : StopCameraCheck(t)
    \/ \E t \in ReqThreads : StopCameraRelease(t)

SpecCamera == Init /\ [][NextCamera]_vars

\* start_camera names cv2 as a module global; like np, cv2 is bound only as a
\* local of the functions that call import_cv2(), so line 1228 raises NameError
Cv2Bound == FALSE

\* POST /api/camera/start, lines 1225-1240: 'already running' while is_running
\* is set; otherwise cv2.VideoCapture(0), whose NameError handle_exceptions
\* answers with 500 before camera_state is touched; with cv2 bound and the
\* device opened, camera_state is replaced and a new loop thread is started
StartCamera(t, cv2_bound) ==
    /\ pc[t] = "idle"
    /\ IF camera_state.is_running
       THEN /\ response' = [status |-> 200]
            /\ start_result' = "already running"
            /\ UNCHANGED <<camera_state, capture_open, loop_threads>>
       ELSE IF ~cv2_bound
       THEN /\ response' = [status |-> 500]
            /\ start_result' = "NameError"
            /\ UNCHANGED <<camera_state, capture_open, loop_threads>>
       ELSE \E opened \in BOOLEAN :
            IF ~opened
            THEN /\ response' = [status |-> 500]
                 /\ start_result' = "cannot open"
                 /\ UNCHANGED <<camera_state, capture_open, loop_threads>>
            ELSE /\ camera_state' = RunningCamera
                 /\ capture_open' = TRUE
                 /\ loop_threads' = loop_threads + 1
                 /\ response' = [status |-> 200]
                 /\ start_result' = "started"
    /\ UNCHANGED <<now, storeVars, galleryVars, pc, req, sa, loopVars, calls, okEvents,
                   alertErrors, nRequests, loop_camera, adminVars, analyzeVars, save_log,
                   db_result>>

start_camera_cv2_bound(t) == StartCamera(t, TRUE)
start_camera(t) == StartCamera(t, Cv2Bound)

\* the monitoring loop and requests to stop and to start it
NextStart ==
    \/ NextCamera
    \/ \E t \in ReqThreads : start_camera(t)

SpecStart == Init /\ [][NextStart]_vars

\* ---------------------------------------------------------- face gallery
Range(seq) == {seq[i] : i \in 1..Len(seq)}
\* the gallery a complete load builds from the documents read
GalleryOf(emps) == <<LoadIds(emps), LoadNames(emps), LoadEncodings(emps)>>
Gallery == <<known_employee_ids, known_face_names, known_face_encodings>>

NeverRegistered(ids, employee_id) == FALSE
\* register_employee, line 152: 'employee_id not in self.known_employee_ids'
AlreadyRegistered(ids, employee_id) == employee_id \in Range(ids)

\* the ids and the np.random.random(128) vectors register_employee is called with
RegisterIds == {"E1", "E7"}
RandomEncodings == {4}

\* face_system.register_employee, lines 149-166
register_employee(t, name, employee_id, encoding) ==
    /\ pc[t] = "idle"
    /\ IF ~AlreadyRegistered(known_employee_ids, employee_id)
       THEN /\ known_employee_ids' = Append(known_employee_ids, employee_id)
            /\ known_face_names' = Append(known_face_names, name)
            /\ known_face_encodings' = Append(known_face_encodings, encoding)
            /\ reg_result' = [employee_id |-> employee_id, returned |-> "True"]
       ELSE /\ reg_result' = [employee_id |-> employee_id, returned |-> "False"]
            /\ UNCHANGED galleryVars
    /\ UNCHANGED <<now, storeVars, pc, req, sa, response, loopVars, calls, okEvents,
                   alertErrors, nRequests, cameraVars, ld, gallery_old, nLoads, analyzeVars, reportVars>>

\* a call of face_system.load_employees_from_db (lines 123, 873, 1032)
load_employees_from_db(t) ==
    /\ pc[t] = "idle"
    /\ nLoads < MaxLoads
    /\ nLoads' = nLoads + 1
    /\ pc' = [pc EXCEPT ![t] = "ld_read"]
    /\ UNCHANGED <<now, storeVars, galleryVars, req, sa, response, loopVars, calls, okEvents,
                   alertErrors, nRequests, cameraVars, ld, gallery_old, reg_result,
                   analyzeVars, reportVars>>

\* the ids POST /api/employees is called with
NewIds == {"E1", "E4"}
employee_doc(employee_id) ==
    [employee_id |-> employee_id, name |-> "New", face_encoding |-> None,
     status |-> "active"]

\* POST /api/employees, lines 790-876: the id must be new (409); a face image
\* is decoded with np.frombuffer, whose NameError the handler answers with 400
\* (lines 830, 840-842); the document is inserted without a face encoding
\* (400 when the insert fails); then the gallery is reloaded
register_employee_route(t, employee_id, with_image, insert_raises) ==
    /\ pc[t] = "idle"
    /\ IF get_employee_by_id(employees, employee_id)
       THEN /\ response' = [status |-> 409]
            /\ UNCHANGED <<employees, pc, ld, nLoads>>
       ELSE IF (with_image /\ ~NpBound) \/ insert_raises
       THEN /\ response' = [status |-> 400]
            /\ UNCHANGED <<employees, pc, ld, nLoads>>
       ELSE /\ nLoads < MaxLoads
            /\ nLoads' = nLoads + 1
            /\ employees' = Append(employees, employee_doc(employee_id))
            /\ ld' = [ld EXCEPT ![t].route = TRUE]
            /\ pc' = [pc EXCEPT ![t] = "ld_read"]
            /\ UNCHANGED response
    /\ UNCHANGED <<now, attendance, safety_events, alerts, galleryVars, req, sa, loopVars,
                   calls, okEvents, alertErrors, nRequests, cameraVars, gallery_old,
                   reg_result, analyzeVars, reportVars>>

\* load_employees_from_db, line 131: get_all_employees_with_encodings answers
\* [] when the query raises
LoadRead(t) ==
    /\ pc[t] = "ld_read"
    /\ \E raises \in BOOLEAN :
        LET emps == IF raises THEN <<>> ELSE get_all_employees_with_encodings(employees)
        IN  ld' = [ld EXCEPT ![t].emps = emps, ![t].all = emps, ![t].ok = ~raises]
    /\ gallery_old' = Gallery
    /\ pc' = [pc EXCEPT ![t] = "ld_reset_encodings"]
    /\ UNCHANGED <<now, storeVars, galleryVars, req, sa, response, loopVars, calls, okEvents,
                   alertErrors, nRequests, cameraVars, reg_result, nLoads, analyzeVars, reportVars>>

KeepList(old) == old
\* lines 132-134: each list is replaced by a new empty list
ResetList(old) == <<>>

\* line 132
LoadResetEncodings(t) ==
    /\ pc[t] = "ld_reset_encodings"
    /\ known_face_encodings' = ResetList(known_face_encodings)
    /\ pc' = [pc EXCEPT ![t] = "ld_reset_names"]
    /\ UNCHANGED <<now, storeVars, known_employee_ids, known_face_names, req, sa, response,
                   loopVars, calls, okEvents, alertErrors, nRequests, otherVars>>

\* line 133
LoadResetNames(t) ==
    /\ pc[t] = "ld_reset_names"
    /\ known_face_names' = ResetList(known_face_names)
    /\ pc' = [pc EXCEPT ![t] = "ld_reset_ids"]
    /\ UNCHANGED <<now, storeVars, known_employee_ids, known_face_encodings, req, sa,
                   response, loopVars, calls, okEvents, alertErrors, nRequests, otherVars>>

\* line 134
LoadResetIds(t) ==
    /\ pc[t] = "ld_reset_ids"
    /\ known_employee_ids' = ResetList(known_employee_ids)
    /\ pc' = [pc EXCEPT ![t] = "ld_next"]
    /\ UNCHANGED <<now, storeVars, known_face_names, known_face_encodings, req, sa,
                   response, loopVars, calls, okEvents, alertErrors, nRequests, otherVars>>

\* lines 136-138: the next document, kept only with an employee_id and a face
\* encoding; after the last one the load returns (the route answers 201)
LoadNext(t) ==
    /\ pc[t] = "ld_next"
    /\ IF ld[t].emps = <<>>
       THEN /\ pc' = [pc EXCEPT ![t] = "idle"]
            /\ response' = IF ld[t].route THEN [status |-> 201] ELSE response
            /\ ld' = [ld EXCEPT ![t] = NoLd]
       ELSE IF Head(ld[t].emps).employee_id # "" /\ Head(ld[t].emps).face_encoding # None
       THEN /\ pc' = [pc EXCEPT ![t] = "ld_id"]
            /\ UNCHANGED <<ld, response>>
       ELSE /\ ld' = [ld EXCEPT ![t].emps = Tail(@)]
            /\ UNCHANGED <<pc, response>>
    /\ UNCHANGED <<now, storeVars, galleryVars, req, sa, loopVars, calls, okEvents,
                   alertErrors, nRequests, cameraVars, gallery_old, reg_result, nLoads,
                   analyzeVars, reportVars>>

\* line 139
LoadAppendId(t) ==
    /\ pc[t] = "ld_id"
    /\ known_employee_ids' = Append(known_employee_ids, Head(ld[t].emps).employee_id)
    /\ pc' = [pc EXCEPT ![t] = "ld_name"]
    /\ UNCHANGED <<now, storeVars, known_face_names, known_face_encodings, req, sa,
                   response, loopVars, calls, okEvents, alertErrors, nRequests, otherVars>>

\* line 140
LoadAppendName(t) ==
    /\ pc[t] = "ld_name"
    /\ known_face_names' = Append(known_face_names, Head(ld[t].emps).name)
    /\ pc' = [pc EXCEPT ![t] = "ld_encoding"]
    /\ UNCHANGED <<now, storeVars, known_employee_ids, known_face_encodings, req, sa,
                   response, loopVars, calls, okEvents, alertErrors, nRequests, otherVars>>

\* lines 142-143
LoadAppendEncoding(t) ==
    /\ pc[t] = "ld_encoding"
    /\ known_face_encodings' = Append(known_face_encodings, Head(ld[t].emps).face_encoding)
    /\ ld' = [ld EXCEPT ![t].emps = Tail(@)]
    /\ pc' = [pc EXCEPT ![t] = "ld_next"]
    /\ UNCHANGED <<now, storeVars, known_employee_ids, known_face_names, req, sa, response,
                   loopVars, calls, okEvents, alertErrors, nRequests, cameraVars,
                   gallery_old, reg_result, nLoads, analyzeVars, reportVars>>

\* MongoDBManager.delete_employee as DELETE /api/employees/<id> calls it
\* (lines 903-913): a hard delete removes the document and the employee's
\* attendance, safety events and alerts; a soft delete sets status inactive
DeleteIds == {"E1", "E9"}
soft_delete(store, employee_id) ==
    [i \in 1..Len(store) |->
        IF store[i].employee_id = employee_id
        THEN [store[i] EXCEPT !.status = "inactive"] ELSE store[i]]
NotOf(employee_id, docs) == SelectSeq(docs, LAMBDA doc : doc.employee_id # employee_id)

delete_employee(t, employee_id, hard_delete, raises) ==
    /\ pc[t] = "idle"
    /\ IF raises \/ ~get_employee_by_id(employees, employee_id)
       THEN /\ response' = [status |-> 404]
            /\ UNCHANGED storeVars
       ELSE IF hard_delete
       THEN /\ employees' = NotOf(employee_id, employees)
            /\ attendance' = NotOf(employee_id, attendance)
            /\ safety_events' = NotOf(employee_id, safety_events)
            /\ alerts' = NotOf(employee_id, alerts)
            /\ response' = [status |-> 200]
       ELSE /\ employees' = soft_delete(employees, employee_id)
            /\ response' = [status |-> 200]
            /\ UNCHANGED <<attendance, safety_events, alerts>>
    /\ UNCHANGED <<now, galleryVars, pc, req, sa, loopVars, calls, okEvents, alertErrors,
                   nRequests, otherVars>>

LoadSteps(t) ==
    \/ LoadRead(t)
    \/ LoadResetEncodings(t)
    \/ LoadResetNames(t)
    \/ LoadResetIds(t)
    \/ LoadNext(t)
    \/ LoadAppendId(t)
    \/ LoadAppendName(t)
    \/ LoadAppendEncoding(t)

\* no request is inside load_employees_from_db
NoLoadRunning == \A t \in ReqThreads : pc[t] = "idle"

\* the gallery and the employee store, one call after the other: a call starts
\* only when no load is under way
NextGallery ==
    \/ \E t \in ReqThreads, employee_id \in RegisterIds, encoding \in RandomEncodings :
            NoLoadRunning /\ register_employee(t, "Reg", employee_id, encoding)
    \/ \E t \in ReqThreads : NoLoadRunning /\ load_employees_from_db(t)
    \/ \E t \in ReqThreads, employee_id \in NewIds, with_image \in BOOLEAN,
          insert_raises \in BOOLEAN :
            NoLoadRunning /\ register_employee_route(t, employee_id, with_image, insert_raises)
    \/ \E t \in ReqThreads, employee_id \in DeleteIds, hard_delete \in BOOLEAN,
          raises \in BOOLEAN :
            NoLoadRunning /\ delete_employee(t, employee_id, hard_delete, raises)
    \/ \E t \in ReqThreads : LoadSteps(t)

SpecGallery == Init /\ [][NextGallery]_vars

\* the face_image argument of MongoDBManager.register_employee: none, an image
\* without a face, an image of a face
FaceImages == {"none", "no_face", "face"}
\* face_recognition.face_locations / face_encodings on that image
face_encodings(face_image) == IF face_image = "face" THEN <<4>> ELSE <<>>

\* create_employee, lines 295-312: the insert is refused for an employee_id
\* the collection already holds (unique index) and may raise; both answer False
create_employee(store, doc, insert_raises) ==
    IF insert_raises \/ get_employee_by_id(store, doc.employee_id)
    THEN [ok |-> FALSE, store |-> store]
    ELSE [ok |-> TRUE, store |-> Append(store, doc)]

\* MongoDBManager.register_employee(employee_data, face_image), lines 426-526;
\* library: face_recognition, cv2 and numpy can be imported (line 434)
db_register_employee(t, employee_id, face_image, library, insert_raises) ==
    /\ pc[t] = "idle"
    /\ IF face_image # "none" /\ ~library
       THEN /\ db_result' = [employee_id |-> employee_id, returned |-> "True"]
            /\ UNCHANGED employees
       ELSE IF face_image # "none" /\ face_encodings(face_image) = <<>>
       THEN /\ db_result' = [employee_id |-> employee_id, returned |-> "False"]
            /\ UNCHANGED employees
       ELSE LET face_encoding == IF face_image = "none" THEN None
                                 ELSE face_encodings(face_image)[1]
                created == create_employee(employees,
                                           [employee_doc(employee_id) EXCEPT
                                                !.face_encoding = face_encoding],
                                           insert_raises)
            IN  /\ employees' = created.store
                /\ db_result' = [employee_id |-> employee_id,
                                 returned |-> IF created.ok THEN "True" ELSE "False"]
    /\ UNCHANGED <<now, attendance, safety_events, alerts, galleryVars, pc, req, sa, response,
                   loopVars, calls, okEvents, alertErrors, nRequests, cameraVars, adminVars,
                   analyzeVars, save_log, loop_threads, start_result>>

\* direct calls of MongoDBManager.register_employee and gallery loads, one
\* call after the other
NextRegister ==
    \/ \E t \in ReqThreads, employee_id \in NewIds, face_image \in FaceImages,
          library \in BOOLEAN, insert_raises \in BOOLEAN :
            NoLoadRunning /\ db_register_employee(t, employee_id, face_image, library,
                                                  insert_raises)
    \/ \E t \in ReqThreads : NoLoadRunning /\ load_employees_from_db(t)
    \/ \E t \in ReqThreads : LoadSteps(t)

SpecRegister == Init /\ [][NextRegister]_vars

\* a reload requested while the monitoring loop is matching
NextReload ==
    \/ \E t \in ReqThreads, employee_id \in NewIds, with_image \in BOOLEAN,
          insert_raises \in BOOLEAN :
            register_employee_route(t, employee_id, with_image, insert_raises)
    \/ \E t \in ReqThreads : LoadSteps(t)
    \/ NextMonitorOn(ImageFrames)

SpecReload == Init /\ [][NextReload]_vars

\* ------------------------------------------------------ frame analysis API
\* the body of POST /api/safety/analyze-frame: no frame_data, frame_data whose
\* base64 padding is wrong, base64 of bytes that are no image, base64 of an image
Payloads ==
    {[kind |-> k, frame |-> NoFrame] : k \in {"missing", "bad_base64", "not_image"}}
        \cup [kind : {"image"}, frame : ImageFrames]
Undecodable(p) == p.kind \in {"bad_base64", "not_image"}

analyze_response_lenient(p, ids, names, encs, available) ==
    IF p.kind = "missing" THEN [status |-> 400, safety |-> <<>>]
    ELSE [status |-> 200, safety |-> <<default_assessment>>]
\* lines 1176-1216: 400 without frame_data; b64decode raises on wrong padding
\* and np.frombuffer raises NameError (np is not bound), both answered by the
\* except clause with 500; with np bound an undecodable image would be
\* answered with 400 and an image with its assessment
analyze_response(p, ids, names, encs, available) ==
    IF p.kind = "missing" THEN [status |-> 400, safety |-> <<>>]
    ELSE IF p.kind = "bad_base64" THEN [status |-> 500, safety |-> <<>>]
    ELSE IF ~NpBound THEN [status |-> 500, safety |-> <<>>]
    ELSE IF p.kind = "not_image" THEN [status |-> 400, safety |-> <<>>]
    ELSE [status |-> 200,
          safety |-> <<process_frame(p.frame,
                                     recognize_faces(p.frame, ids, names, encs, available))>>]

\* POST /api/safety/analyze-frame: the handler writes nothing to the store
analyze_safety_frame(t, p, available) ==
    /\ pc[t] = "idle"
    /\ payload' = p
    /\ analysis' = analyze_response(p, known_employee_ids, known_face_names,
                                    known_face_encodings, available)
    /\ response' = [status |-> analysis'.status]
    /\ UNCHANGED <<now, storeVars, galleryVars, pc, req, sa, loopVars, calls, okEvents,
                   alertErrors, nRequests, cameraVars, adminVars, reportVars>>

\* frames analysed on request and frames analysed by the monitoring loop
NextAnalyze ==
    \/ \E t \in ReqThreads, p \in Payloads, available \in BOOLEAN :
            analyze_safety_frame(t, p, available)
    \/ NextMonitorOn(ImageFrames)

SpecAnalyze == Init /\ [][NextAnalyze]_vars

\* ------------------------------------------------------ the whole program
Next ==
    \/ NextAttendance
    \/ NextMonitor
    \/ NextCamera
    \/ \E t \in ReqThreads, employee_id \in RegisterIds, encoding \in RandomEncodings :
            register_employee(t, "Reg", employee_id, encoding)
    \/ \E t \in ReqThreads : load_employees_from_db(t)
    \/ \E t \in ReqThreads, employee_id \in DeleteIds, hard_delete \in BOOLEAN,
          raises \in BOOLEAN : delete_employee(t, employee_id, hard_delete, raises)
    \/ NextReload
    \/ NextAnalyze
    \/ NextStart
    \/ NextRegister

Spec == Init /\ [][Next]_vars

\* ================================================================ claims
SessionsOf(e, d) ==
    {i \in 1..Len(attendance) :
        attendance[i].employee_id = e /\ Day(attendance[i].timestamp) = d}
LastEvent(events) == events[Len(events)]
MinDistance(encs, probe) == face_distance(encs, probe)[argmin(face_distance(encs, probe))]

\* C1: in every reachable state there is at most one attendance record per
\* (employee_id, calendar day), also when two save_attendance calls for the
\* same employee and day interleave their find_one and their write.
C1_OneSessionPerDay ==
    \A e \in EmployeeIds, d \in Days : Cardinality(SessionsOf(e, d)) <= 1

\* C2: after n >= 1 sequential save_attendance calls for one employee on one
\* day there is exactly one record for that employee and day; its
\* check_in_time is the time of the first call, its check_out_time is null
\* after one call and the time of the last call after two or more, and its
\* confidence is the highest confidence passed.
C2_DedupInvariant ==
    \A e \in EmployeeIds, d \in Days :
        calls[e][d].n >= 1 =>
            /\ Cardinality(SessionsOf(e, d)) = 1
            /\ \A i \in SessionsOf(e, d) :
                /\ attendance[i].check_in_time = calls[e][d].first
                /\ attendance[i].check_out_time =
                        IF calls[e][d].n = 1 THEN None ELSE calls[e][d].last
                /\ attendance[i].confidence = calls[e][d].highest

\* three calls on one day, the last one with a lower confidence than an earlier one
C2_Witness ==
    \E e \in EmployeeIds, d \in Days :
        /\ calls[e][d].n >= 3
        /\ calls[e][d].last_confidence < calls[e][d].highest
        /\ calls[e][d].last > calls[e][d].first
        /\ \E i \in SessionsOf(e, d) : attendance[i].check_out_time = calls[e][d].last

\* C3: when /api/attendance/mark carries a timestamp T, the day of the session
\* is the day of T, a session it creates has check_in_time = T and a session it
\* updates gets check_out_time = T.
C3_CallerTimestampUsed ==
    [][\A t \in ReqThreads :
        (pc[t] = "sa_write" /\ pc'[t] = "idle" /\ attendance' # attendance) =>
            IF Len(attendance') > Len(attendance)
            THEN /\ LastEvent(attendance').check_in_time = req[t].timestamp
                 /\ Day(LastEvent(attendance').timestamp) = Day(req[t].timestamp)
            ELSE \A i \in 1..Len(attendance) :
                    attendance'[i] # attendance[i] =>
                        /\ attendance'[i].check_out_time = req[t].timestamp
                        /\ Day(attendance'[i].timestamp) = Day(req[t].timestamp)]_vars

\* C4: save_safety_event is append-only and never deduplicates: every call that
\* returns True adds exactly one event at the end of the collection, a call
\* that fails adds none, and no call changes or removes an earlier event.
C4_AppendOnly ==
    [][/\ okEvents' - okEvents \in {0, 1}
       /\ Len(safety_events') = Len(safety_events) + (okEvents' - okEvents)
       /\ SubSeq(safety_events', 1, Len(safety_events)) = safety_events]_vars

\* two successful calls with identical arguments and an empty violations list
C4_Witness ==
    /\ okEvents = 2
    /\ Len(safety_events) = 2
    /\ safety_events[1] = safety_events[2]
    /\ safety_events[1].violations = <<>>

\* C5: a save_safety_event call that inserts an event with a non-empty
\* violations list creates exactly one alert, of priority high, active and not
\* acknowledged, filed under the event's employee (none only if the alert
\* insert itself raises); a call with an empty violations list creates none.
C5_AlertOnlyForViolations ==
    [][IF Len(safety_events') > Len(safety_events)
          /\ LastEvent(safety_events').violations # <<>>
          /\ alertErrors' = alertErrors
       THEN /\ Len(alerts') = Len(alerts) + 1
            /\ SubSeq(alerts', 1, Len(alerts)) = alerts
            /\ LastEvent(alerts').priority = "high"
            /\ LastEvent(alerts').status = "active"
            /\ LastEvent(alerts').acknowledged = FALSE
            /\ LastEvent(alerts').type = "safety_violation"
            /\ LastEvent(alerts').employee_id = LastEvent(safety_events').employee_id
       ELSE alerts' = alerts]_vars

\* one event without violations and no alert for it, one event with
\* violations and its alert
C5_Witness ==
    /\ Len(safety_events) = 2
    /\ safety_events[1].violations = <<>>
    /\ safety_events[2].violations # <<>>
    /\ Len(alerts) = 1
    /\ alerts[1].priority = "high"
    /\ alertErrors = 0

\* C6: the assessment process_frame returns follows the classifier table:
\* with a person and no violation (1.0, compliant), with exactly one violation
\* (0.7, minor_violation), with both (0.4, major_violation) and 'Hard hat
\* required' before 'Safety vest required'; with no person (0.5,
\* no_person_detected) whatever the frame shows of helmet and vest.
C6_ClassifierTable ==
    (pc[LoopThread] = "save_safety" /\ ~ProcessFrameRaises(frame, results.faces)) =>
        LET a == results.safety[1]
            row(violations, score, status) ==
                /\ a.violations = violations
                /\ a.safety_score = score
                /\ a.safety_status = status
        IN  /\ a.persons_detected = 0 =>
                (a.safety_score = 5 /\ a.safety_status = "no_person_detected")
            /\ (a.persons_detected >= 1 /\ a.hasHelmet /\ a.hasVest) =>
                row(<<>>, 10, "compliant")
            /\ (a.persons_detected >= 1 /\ ~a.hasHelmet /\ a.hasVest) =>
                row(<<"Hard hat required">>, 7, "minor_violation")
            /\ (a.persons_detected >= 1 /\ a.hasHelmet /\ ~a.hasVest) =>
                row(<<"Safety vest required">>, 7, "minor_violation")
            /\ (a.persons_detected >= 1 /\ ~a.hasHelmet /\ ~a.hasVest) =>
                row(<<"Hard hat required", "Safety vest required">>, 4, "major_violation")

\* a frame with no person in which helmet and vest colours are in view
C6_Witness ==
    /\ pc[LoopThread] = "save_safety"
    /\ frame.helmet /\ frame.vest
    /\ results.safety[1].persons_detected = 0
    /\ results.safety[1].safety_status = "no_person_detected"

\* C7: a frame with zero persons is neutral: when the loop stores its
\* assessment no alert is created and the stored event has violation_count 0,
\* so the safety statistics do not count it as a violation.
C7_NoPersonNeutral ==
    [][(/\ pc[LoopThread] = "save_safety"
        /\ results.safety[1].safety_status = "no_person_detected"
        /\ Len(safety_events') > Len(safety_events)) =>
            /\ alerts' = alerts
            /\ LastEvent(safety_events').violation_count = 0
            /\ violations_today(safety_events') = violations_today(safety_events)]_vars

\* C8: when an exception escapes inside process_frame the assessment returned
\* has violations ['Safety system error'], score 0.0 and status system_error,
\* never compliant.
C8_ErrorAssessment ==
    (pc[LoopThread] = "save_safety" /\ ProcessFrameRaises(frame, results.faces)) =>
        /\ results.safety[1].violations = <<"Safety system error">>
        /\ results.safety[1].safety_score = 0
        /\ results.safety[1].safety_status = "system_error"
        /\ results.safety[1].safety_status # "compliant"

\* the cascade found a body and the matcher returned a face: persons.append raised
C8_Witness ==
    /\ pc[LoopThread] = "save_safety"
    /\ frame.cascade > 0
    /\ Len(results.faces) > 0
    /\ results.safety[1].safety_status = "system_error"

\* C9: with the face_recognition library present, a frame with one face whose
\* encoding equals the reference encoding of gallery identity A yields one
\* result with A's employee_id, A's name and confidence 1.0.
C9_ExactMatch ==
    (pc[LoopThread] # "idle" /\ face_recognition /\ Len(frame.faces) = 1) =>
        \A k \in 1..Len(known_face_encodings) :
            known_face_encodings[k] = frame.faces[1] =>
                /\ Len(results.faces) = 1
                /\ results.faces[1].employee_id = known_employee_ids[k]
                /\ results.faces[1].name = known_face_names[k]
                /\ results.faces[1].confidence = 10

\* C10: with the library present, every face whose smallest distance to the
\* gallery exceeds the tolerance, and every face when the gallery is empty,
\* gets a result with employee_id UNKNOWN and confidence 0.0; a result names an
\* employee only when that distance is within the tolerance, and its
\* confidence is then 1 - distance.
C10_UnknownBeyondTolerance ==
    (pc[LoopThread] # "idle" /\ face_recognition) =>
        /\ \A j \in 1..Len(frame.faces) :
            (\/ Len(known_face_encodings) = 0
             \/ MinDistance(known_face_encodings, frame.faces[j]) > Tolerance) =>
                /\ j \in DOMAIN results.faces
                /\ results.faces[j].employee_id = "UNKNOWN"
                /\ results.faces[j].confidence = 0
        /\ \A j \in DOMAIN results.faces :
            results.faces[j].employee_id # "UNKNOWN" =>
                /\ Len(known_face_encodings) > 0
                /\ MinDistance(known_face_encodings, frame.faces[j]) <= Tolerance
                /\ results.faces[j].confidence =
                        10 - MinDistance(known_face_encodings, frame.faces[j])

\* the gallery entries at the smallest distance from a probe
Nearest(encs, probe) ==
    {k \in 1..Len(encs) :
        face_distance(encs, probe)[k] = MinDistance(encs, probe)}

\* C11: with the library present, a face at the same smallest distance
\* (within the tolerance) from two or more gallery entries is matched to the
\* one with the lowest index in known_face_encodings.
C11_TieFirst ==
    (pc[LoopThread] = "save_safety" /\ face_recognition) =>
        \A j \in 1..Len(frame.faces) :
            (/\ Len(known_face_encodings) > 0
             /\ Cardinality(Nearest(known_face_encodings, frame.faces[j])) >= 2
             /\ MinDistance(known_face_encodings, frame.faces[j]) <= Tolerance) =>
                /\ j \in DOMAIN results.faces
                /\ results.faces[j].employee_id =
                        known_employee_ids[SetMin(Nearest(known_face_encodings,
                                                          frame.faces[j]))]

\* C12: when import_face_recognition() gives None, recognize_faces returns one
\* result per region detect_faces found, each UNKNOWN with confidence 0.0 and
\* that region as its bbox, whatever the gallery holds.
C12_FallbackUnknown ==
    (pc[LoopThread] = "save_safety" /\ ~face_recognition) =>
        /\ Len(results.faces) = Len(detect_faces(frame))
        /\ \A j \in 1..Len(results.faces) :
            /\ results.faces[j].employee_id = "UNKNOWN"
            /\ results.faces[j].confidence = 0
            /\ results.faces[j].bbox = detect_faces(frame)[j]

\* two faces in view, a gallery that is not empty, the library missing
C12_Witness ==
    /\ pc[LoopThread] = "save_safety"
    /\ ~face_recognition
    /\ Len(known_face_encodings) > 0
    /\ Len(frame.faces) = 2
    /\ Len(results.faces) = 2

\* C13: every frame the loop reads gets a result with a faces list and one
\* safety assessment: a failure inside recognize_faces leaves the faces list
\* empty, a failure inside detect_helmet / detect_safety_vest leaves the PPE
\* flag False, and process_frame_for_monitoring never answers None.
C13_FrameAnalysisTotal ==
    [][nFrames' = nFrames + 1 =>
        /\ pc'[LoopThread] = "save_safety"
        /\ Len(results'.safety) = 1
        /\ results'.safety[1].safety_status \in
                {"compliant", "minor_violation", "major_violation", "critical",
                 "no_person_detected", "system_error"}
        /\ \A j \in DOMAIN results'.faces :
                results'.faces[j].employee_id \in Range(known_employee_ids) \cup {"UNKNOWN"}
        /\ (face_recognition' /\ RecognizeRaises(frame', known_face_encodings)) =>
                results'.faces = <<>>
        /\ (detect_person(frame').ndarray /\ results'.faces = <<>>) =>
                (~results'.safety[1].hasHelmet /\ ~results'.safety[1].hasVest)]_vars

\* the matcher raised on a frame with a face, and detect_helmet raised on the
\* cascade's detection although a helmet is in view
C13_Witness ==
    /\ pc[LoopThread] = "save_safety"
    /\ face_recognition
    /\ Len(frame.faces) > 0 /\ Len(known_face_encodings) > 0
    /\ results.faces = <<>>
    /\ frame.cascade > 0 /\ frame.helmet
    /\ Len(results.safety) = 1
    /\ ~results.safety[1].hasHelmet

EqualLengths ==
    /\ Len(known_employee_ids) = Len(known_face_names)
    /\ Len(known_face_names) = Len(known_face_encodings)
\* a load_employees_from_db call by thread t returns, its query having succeeded
LoadReturns(t) == pc[t] = "ld_next" /\ pc'[t] = "idle" /\ ld[t].ok

\* C14: register_employee for an employee_id already in the gallery returns
\* False and leaves the three lists as they are; a call that returns True
\* appends one entry for an id that was absent; so under any sequence of calls
\* (and loads) no employee_id occurs twice and the lists stay parallel.
C14_RegisterOnce ==
    [][/\ (reg_result' # reg_result /\ reg_result'.returned = "False") =>
            /\ Gallery' = Gallery
            /\ reg_result'.employee_id \in Range(known_employee_ids)
       /\ (reg_result' # reg_result /\ reg_result'.returned = "True") =>
            /\ reg_result'.employee_id \notin Range(known_employee_ids)
            /\ known_employee_ids' = Append(known_employee_ids, reg_result'.employee_id)
            /\ Len(known_face_names') = Len(known_face_names) + 1
            /\ Len(known_face_encodings') = Len(known_face_encodings) + 1
       /\ Cardinality(Range(known_employee_ids')) = Len(known_employee_ids')
       /\ NoLoadRunning' => EqualLengths']_vars

\* E7 was enrolled by a first call and refused by a second one
C14_Witness ==
    /\ reg_result = [employee_id |-> "E7", returned |-> "False"]
    /\ Cardinality({i \in 1..Len(known_employee_ids) : known_employee_ids[i] = "E7"}) = 1
    /\ EqualLengths

\* C15: a load that returns leaves exactly the gallery built from the store's
\* documents that have an employee_id and a face encoding, in store order,
\* whatever the gallery held before (entries added by register_employee are
\* gone); a load of a gallery that was already loaded from the same store
\* contents leaves it as it was.
C15_LoadIdempotent ==
    [][\A t \in ReqThreads :
        LoadReturns(t) =>
            /\ Gallery' = GalleryOf(get_all_employees_with_encodings(employees))
            /\ gallery_old = GalleryOf(get_all_employees_with_encodings(employees)) =>
                    Gallery' = gallery_old]_vars

\* two loads have returned; E7, enrolled by register_employee before the
\* second one, is gone and the gallery is the store's two identities
C15_Witness ==
    /\ nLoads = 2
    /\ NoLoadRunning
    /\ reg_result = [employee_id |-> "E7", returned |-> "True"]
    /\ "E7" \notin Range(known_employee_ids)
    /\ Len(known_employee_ids) = 2
    /\ Gallery = GalleryOf(get_all_employees_with_encodings(employees))
    /\ gallery_old = Gallery

\* C16: whenever the loop's matcher reads the gallery, the three lists have
\* the same length and the gallery is the complete gallery from before the
\* load under way or the complete gallery that load is building.
C16_NoPartialGallery ==
    [][nFrames' = nFrames + 1 =>
        /\ EqualLengths
        /\ \/ NoLoadRunning
           \/ Gallery = gallery_old
           \/ \E t \in ReqThreads : pc[t] # "idle" /\ Gallery = GalleryOf(ld[t].all)]_vars

\* C17: once an employee is deactivated (soft delete), a load that returns
\* leaves a gallery without that employee_id.
C17_DeactivatedRemoved ==
    [][\A t \in ReqThreads :
        LoadReturns(t) =>
            \A i \in 1..Len(employees) :
                employees[i].status = "inactive" =>
                    employees[i].employee_id \notin Range(known_employee_ids')]_vars

\* C18: a frame payload that cannot be decoded into an image is answered with
\* an error status and without a safety assessment.
C18_UndecodableIsError ==
    Undecodable(payload) =>
        /\ analysis.status \in {400, 500}
        /\ analysis.safety = <<>>

\* bytes that are valid base64 but no image have been answered
C18_Witness ==
    /\ payload.kind = "not_image"
    /\ analysis.status >= 400
    /\ analysis.safety = <<>>

\* C19: every frame that gets a safety assessment adds exactly one safety
\* event: when the loop's save_monitoring_results returns for its frame, and
\* when analyze_safety_frame answers with an assessment.
C19_OneEventPerAssessment ==
    [][/\ (pc[LoopThread] = "save_safety" /\ pc'[LoopThread] = "idle") =>
            Len(safety_events') = Len(safety_events) + 1
       /\ (analysis' # analysis /\ analysis'.safety # <<>>) =>
            Len(safety_events') = Len(safety_events) + 1]_vars

\* C20: stop_camera never fails: every request it accepts while the loop runs
\* ends with the success answer, whatever the loop does meanwhile.
C20_StopCameraSafe ==
    [][\A t \in ReqThreads :
        (pc[t] \in {"stop_check", "stop_release"} /\ pc'[t] = "idle") =>
            response'.status = 200]_vars

\* C21: when face results are passed, the candidate person list is the
\* detect_person result followed by one face-derived region per face result,
\* whichever detector produced the first part, and persons_detected is the
\* length of that combined list.
C21_PersonListCombined ==
    (pc[LoopThread] = "save_safety" /\ Len(results.faces) > 0) =>
        results.safety[1].persons_detected =
            Len(detect_person(frame).boxes) + Len(FaceDerived(results.faces))

\* C22: with at least one candidate, hasHelmet and hasVest are what the
\* contour tests find in the region of the first candidate, whichever source
\* produced that candidate.
C22_FirstCandidateAnySource ==
    (pc[LoopThread] = "save_safety" /\ results.safety[1].persons_detected >= 1) =>
        /\ results.safety[1].hasHelmet = frame.helmet
        /\ results.safety[1].hasVest = frame.vest

\* C23: when detect_helmet and detect_safety_vest fail internally on a frame
\* with a person, they answer False: the assessment lists 'Hard hat required'
\* and 'Safety vest required' and is not compliant.
C23_PpeFailClosed ==
    (/\ pc[LoopThread] = "save_safety"
     /\ results.safety[1].persons_detected >= 1
     /\ detect_person(frame).ndarray) =>
        /\ ~results.safety[1].hasHelmet
        /\ ~results.safety[1].hasVest
        /\ "Hard hat required" \in Range(results.safety[1].violations)
        /\ "Safety vest required" \in Range(results.safety[1].violations)
        /\ results.safety[1].safety_status # "compliant"

\* the first candidate is the cascade's, helmet and vest are both in view and
\* both checks failed
C23_Witness ==
    /\ pc[LoopThread] = "save_safety"
    /\ frame.cascade > 0 /\ frame.helmet /\ frame.vest
    /\ results.safety[1].persons_detected >= 1
    /\ results.safety[1].safety_status = "major_violation"

\* C24: a save_safety_event that fails inside the loop's
\* save_monitoring_results is surfaced by it, not reported as saved; the
\* frame's results stand and the loop goes on to the next frame.
C24_SaveFailureSurfaced ==
    [][(/\ pc[LoopThread] = "save_safety"
        /\ pc'[LoopThread] = "idle"
        /\ okEvents' = okEvents) =>
            save_log' = "Database save error"]_vars

C26_RunningHasOpenCamera ==
    camera_state.is_running => (camera_state.camera # "None" /\ capture_open)

\* C27: MongoDBManager.register_employee returns True only when it has
\* inserted a document with that employee_id, also when a face image is given
\* and the face_recognition library cannot be imported; when it returns False
\* the employees collection is unchanged.
C27_RegisteredMeansInserted ==
    [][db_result' # db_result =>
        /\ db_result'.returned = "True" =>
                /\ Len(employees') = Len(employees) + 1
                /\ SubSeq(employees', 1, Len(employees)) = employees
                /\ LastEvent(employees').employee_id = db_result'.employee_id
        /\ db_result'.returned = "False" => employees' = employees]_vars

\* C28: once a save_attendance call for employee E has written on day D,
\* check_attendance_today(E, D) is True; for an employee without an
\* attendance record on D it is False.
C28_SavedIsVisibleToday ==
    \A e \in EmployeeIds, d \in Days :
        check_attendance_today(attendance, e, d) <=> SessionsOf(e, d) # {}

\* C29: every assessment process_frame returns is compliant if and only if it
\* has at least one person and hasHelmet and hasVest are both true; none is
\* compliant with zero persons, a missing helmet or vest, or after an error.
C29_CompliantIff ==
    pc[LoopThread] = "save_safety" =>
        (results.safety[1].safety_status = "compliant"
            <=> (/\ results.safety[1].persons_detected >= 1
                 /\ results.safety[1].hasHelmet
                 /\ results.safety[1].hasVest))

\* a compliant assessment: one candidate of the contour fallback, helmet and
\* vest found
C29_Witness ==
    /\ pc[LoopThread] = "save_safety"
    /\ results.safety[1].safety_status = "compliant"
    /\ results.safety[1].persons_detected = 1
    /\ results.safety[1].violations = <<>>
    /\ frame.cascade = 0 /\ frame.contours = 1

\* C30: when the fetch of the enrolled identities fails during
\* load_employees_from_db, the gallery after the load is the gallery from
\* before it.
C30_FailedLoadKeepsGallery ==
    [][\A t \in ReqThreads :
        (pc[t] = "ld_next" /\ pc'[t] = "idle" /\ ~ld[t].ok) =>
            Gallery' = gallery_old]_vars

====
